---------------------------- MODULE Spec2Model ----------------------------
(***************************************************************************)
(* A model of the stock price candlestick chart web application            *)
(* (src/main.py): the SearchRecord table with its unique ticker column,    *)
(* the request handlers home, search_price and delete_record run by        *)
(* concurrent workers, the date validation is_valid_date_format, and the   *)
(* LINE webhook callback with its handle_message echo handler.             *)
(*                                                                         *)
(* Strings are sequences of one-character strings, so that the substring   *)
(* test of home, the whitespace stripping of DataRequired and the regular  *)
(* expression of strptime are computed character by character.             *)
(***************************************************************************)
EXTENDS Integers, Sequences, FiniteSets, TLC

VARIABLES
    records,      \* the rows of table search_records: a set of [id, ticker]
    pc,           \* pc[w]: where worker w stands in the handler it runs
    req,          \* req[w]: the request worker w is serving and its handler's locals
    out,          \* the response last returned: its request, and the messages flashed
    date_string,  \* the argument of is_valid_date_format
    date_result,  \* what is_valid_date_format returned for it
    cb_pc,        \* where the webhook request stands
    cb_req,       \* the webhook request: signature header and events of the body
    cb_next,      \* the index of the next event WebhookHandler.handle dispatches
    cb_sent,      \* the replies sent through MessagingApi during the request
    cb_resp       \* the response of the webhook request

vars == <<records, pc, req, out, date_string, date_result,
          cb_pc, cb_req, cb_next, cb_sent, cb_resp>>

webVars == <<records, pc, req, out>>
dateVars == <<date_string, date_result>>
cbVars == <<cb_pc, cb_req, cb_next, cb_sent, cb_resp>>

----------------------------------------------------------------------------
(* Bounds of the model.                                                    *)

\* The number of workers serving requests concurrently.
NumWorkers == 2
\* The size of the pool the store draws surrogate ids from.
MaxId == 2
\* The largest number of events in one webhook body.
MaxEvents == 2

Workers == 1..NumWorkers
Ids == 1..MaxId

----------------------------------------------------------------------------
(* Strings.                                                                *)

Digits == {"0", "1", "2", "3", "4", "5", "6", "7", "8", "9"}
NonZeroDigits == Digits \ {"0"}
Whitespace == {" "}

DigitVal(c) ==
    CASE c = "0" -> 0 [] c = "1" -> 1 [] c = "2" -> 2 [] c = "3" -> 3
      [] c = "4" -> 4 [] c = "5" -> 5 [] c = "6" -> 6 [] c = "7" -> 7
      [] c = "8" -> 8 [] c = "9" -> 9

\* Python's `sub in s` for strings.
Contains(s, sub) ==
    \E i \in 1..(Len(s) - Len(sub) + 1) : SubSeq(s, i, i + Len(sub) - 1) = sub

\* Python's int() of a string of digits; surrounding whitespace is skipped.
RECURSIVE int(_)
int(s) ==
    IF s = <<>> THEN 0
    ELSE IF s[Len(s)] \in Whitespace THEN int(SubSeq(s, 1, Len(s) - 1))
    ELSE IF s[1] \in Whitespace THEN int(Tail(s))
    ELSE 10 * int(SubSeq(s, 1, Len(s) - 1)) + DigitVal(s[Len(s)])

\* Python's str.strip() leaves a non-empty string.
StripNonEmpty(s) == \E i \in 1..Len(s) : s[i] \notin Whitespace

----------------------------------------------------------------------------
(* datetime.strptime(date_string, '%Y-%m-%d').  The format compiles to the *)
(* regular expression                                                      *)
(*   (\d\d\d\d)-(1[0-2]|0[1-9]|[1-9])-(3[0-1]|[1-2]\d|0[1-9]|[1-9]| [1-9])  *)
(* which is matched at the start of the string with ordered alternatives   *)
(* and backtracking; the match must consume the whole string, and the      *)
(* three numbers must make a date that datetime accepts.                   *)

RegexY == << <<Digits, Digits, Digits, Digits>> >>
RegexSep == << <<{"-"}>> >>
RegexM == << <<{"1"}, {"0", "1", "2"}>>, <<{"0"}, NonZeroDigits>>, <<NonZeroDigits>> >>
RegexD == << <<{"3"}, {"0", "1"}>>, <<{"1", "2"}, Digits>>, <<{"0"}, NonZeroDigits>>,
             <<NonZeroDigits>>, <<{" "}, NonZeroDigits>> >>
FormatRegex == <<RegexY, RegexSep, RegexM, RegexSep, RegexD>>

\* The characters of s from position i on match the character classes of alt.
AltMatches(s, i, alt) ==
    /\ i + Len(alt) - 1 <= Len(s)
    /\ \A k \in 1..Len(alt) : s[i + k - 1] \in alt[k]

\* re.match from position i for the groups g.. of the pattern: the sequence
\* of positions following each group of the first match in backtracking
\* order, or <<>> when there is no match.
RECURSIVE RegexMatch(_, _, _), TryAlternatives(_, _, _, _)
RegexMatch(s, i, g) ==
    IF g > Len(FormatRegex) THEN <<i>> ELSE TryAlternatives(s, i, g, 1)
TryAlternatives(s, i, g, a) ==
    IF a > Len(FormatRegex[g]) THEN <<>>
    ELSE LET alt == FormatRegex[g][a]
             rest == RegexMatch(s, i + Len(alt), g + 1)
         IN  IF AltMatches(s, i, alt) /\ rest # <<>>
             THEN <<i + Len(alt)>> \o rest
             ELSE TryAlternatives(s, i, g, a + 1)

IsLeap(y) == (y % 4 = 0 /\ y % 100 # 0) \/ y % 400 = 0

DaysInMonth(y, m) ==
    IF m = 2 THEN (IF IsLeap(y) THEN 29 ELSE 28)
    ELSE IF m \in {4, 6, 9, 11} THEN 30 ELSE 31

\* datetime.MINYEAR
MINYEAR == 1

ValueError == [raised |-> TRUE, value |-> <<>>]

\* The datetime parsed, as <<year, month, day>>, or ValueError raised.
strptime(s) ==
    LET found == RegexMatch(s, 1, 1)
    IN  IF found = <<>> THEN ValueError
        ELSE IF Len(s) # found[5] - 1 THEN ValueError
        ELSE LET year == int(SubSeq(s, 1, found[1] - 1))
                 month == int(SubSeq(s, found[2], found[3] - 1))
                 day == int(SubSeq(s, found[4], found[5] - 1))
             IN  IF year < MINYEAR \/ day > DaysInMonth(year, month)
                 THEN ValueError
                 ELSE [raised |-> FALSE, value |-> <<year, month, day>>]

is_valid_date_format(s) ==
    IF strptime(s).raised THEN FALSE ELSE TRUE

\* A comparison that lets equal dates through: > in place of >= .
DateGT(a, b) ==
    \/ a[1] > b[1]
    \/ a[1] = b[1] /\ a[2] > b[2]
    \/ a[1] = b[1] /\ a[2] = b[2] /\ a[3] > b[3]

\* datetime's >= on two parsed dates.
DateGE(a, b) ==
    \/ a[1] > b[1]
    \/ a[1] = b[1] /\ a[2] > b[2]
    \/ a[1] = b[1] /\ a[2] = b[2] /\ a[3] >= b[3]

----------------------------------------------------------------------------
(* The date strings is_valid_date_format is applied to: a year part, a     *)
(* separator, a month part, a separator, a day part and a tail.            *)

YearParts == {<<"2", "0", "2", "3">>, <<"2", "0", "2", "4">>, <<"1", "9", "0", "0">>,
              <<"0", "0", "0", "0">>, <<"2", "0", "2">>}
SepParts == {<<"-">>, <<"/">>, <<>>}
MonthParts == {<<"0", "1">>, <<"1">>, <<"0", "2">>, <<"2">>, <<"0", "4">>, <<"4">>,
               <<"1", "2">>, <<"1", "3">>, <<"0", "0">>, <<"0">>, <<" ", "1">>}
DayParts == {<<"0", "1">>, <<"1">>, <<" ", "1">>, <<"2", "8">>, <<"2", "9">>,
             <<"3", "0">>, <<"3", "1">>, <<"3", "2">>, <<"0", "0">>, <<"0">>}
TailParts == {<<>>, <<" ">>, <<"x">>}

DateStrings ==
    {<<>>, <<" ">>} \cup
    {y \o s1 \o m \o s2 \o d \o t :
        y \in YearParts, s1 \in SepParts, m \in MonthParts, s2 \in SepParts,
        d \in DayParts, t \in TailParts}

----------------------------------------------------------------------------
(* Tickers, form inputs, flashed messages and responses.                   *)

DotTW == <<".", "T", "W">>
DotTWO == <<".", "T", "W", "O">>

T2330TW == <<"2", "3", "3", "0", ".", "T", "W">>
T6488TWO == <<"6", "4", "8", "8", ".", "T", "W", "O">>
T2330 == <<"2", "3", "3", "0">>
AAPL == <<"A", "A", "P", "L">>
XTWOY == <<"X", ".", "T", "W", "O", "Y">>
Empty == <<>>
Blank == <<" ">>

D20230101 == <<"2", "0", "2", "3", "-", "0", "1", "-", "0", "1">>
D20230301 == <<"2", "0", "2", "3", "-", "0", "3", "-", "0", "1">>
D2023011 == <<"2", "0", "2", "3", "-", "1", "-", "1">>
D20230230 == <<"2", "0", "2", "3", "-", "0", "2", "-", "3", "0">>
D20240229 == <<"2", "0", "2", "4", "-", "0", "2", "-", "2", "9">>
D2023s01s01 == <<"2", "0", "2", "3", "/", "0", "1", "/", "0", "1">>

\* The tickers of the price-display and delete requests of the store model.
StoreTickers == {T2330TW, AAPL}
\* The tickers and dates the search form is posted with.
FormTickers == {T2330TW, T6488TWO, T2330, AAPL, XTWOY, Empty, Blank}
FormDates == {D20230101, D20230301, D2023011, D20230230, D20240229, D2023s01s01,
              Empty, Blank}

Form(t, b, e) == [ticker |-> t, begin_date |-> b, end_date |-> e]
EmptyForm == Form(Empty, Empty, Empty)
AllForms == {Form(t, b, e) : t \in FormTickers, b \in FormDates, e \in FormDates}
\* The forms the home handler is posted with beside the store's requests.
FewForms == {Form(T2330TW, D20230101, D20230301), Form(AAPL, D20230101, D20230301)}

MsgBadDateFormat == "bad date format, use yyyy-mm-dd"
MsgBeginNotBeforeEnd == "begin date must be before end date"
MsgBadTickerFormat == "bad ticker format, add .TW or .TWO"
MsgTickerNotFound == "ticker not found"

NoRow == [id |-> 0, ticker |-> Empty]

NoRequest ==
    [route |-> "", method |-> "", form |-> EmptyForm, ticker |-> Empty,
     stock_price_empty |-> FALSE, row |-> NoRow]
HomeRequest(method, form) ==
    [NoRequest EXCEPT !.route = "home", !.method = method, !.form = form]
PriceRequest(t, empty) ==
    [NoRequest EXCEPT !.route = "search_price", !.method = "GET", !.ticker = t,
                      !.stock_price_empty = empty]
DeleteRequest(t) ==
    [NoRequest EXCEPT !.route = "delete_record", !.method = "GET", !.ticker = t]

NoResponse == [status |-> 0, page |-> "", location |-> "", args |-> <<>>, listed |-> {}]
\* render_template('index.html', form=form, records=search_records)
RenderIndex(form, rows) ==
    [NoResponse EXCEPT !.status = 200, !.page = "index.html", !.args = <<form>>,
                       !.listed = rows]
\* render_template('price.html', chart_json=..., chart_id='chart'), the chart
\* titled with the ticker
RenderPrice(t) ==
    [NoResponse EXCEPT !.status = 200, !.page = "price.html", !.args = <<t>>]
\* redirect(url_for('home'))
RedirectHome == [NoResponse EXCEPT !.status = 302, !.location = "home"]
\* redirect(url_for('search_price', ticker=t, begin_date=b, end_date=e))
RedirectPrice(t, b, e) ==
    [NoResponse EXCEPT !.status = 302, !.location = "search_price", !.args = <<t, b, e>>]
\* an exception no handler catches
ServerError == [NoResponse EXCEPT !.status = 500]

----------------------------------------------------------------------------
(* The table search_records.                                               *)

\* SearchRecord.query.filter_by(ticker=t).first(): the row, or NoRow for None.
First(rows, t) ==
    IF \E r \in rows : r.ticker = t
    THEN CHOOSE r \in rows : r.ticker = t
    ELSE NoRow

\* A ticker column declared without unique=True rejects nothing.
UniqueViolationNever(rows, t) == FALSE

\* The unique constraint of column ticker rejects a row for t.
UniqueViolation(rows, t) == \E r \in rows : r.ticker = t

\* The ids the store may give a new row: the primary key is not in use.
FreshIds(rows) == {i \in Ids : \A r \in rows : r.id # i}

\* db.session.query(SearchRecord).all()
All(rows) == rows

----------------------------------------------------------------------------
(* home                                                                    *)

\* DataRequired: the field's data is non-empty after stripping whitespace.
DataRequired(data) == data # Empty /\ StripNonEmpty(data)

\* form.validate_on_submit(): the request is a submission and every field's
\* validators pass.  The requests modelled are submissions of the rendered
\* form, which carry its CSRF token.
validate_on_submit(method, form) ==
    /\ method = "POST"
    /\ DataRequired(form.ticker)
    /\ DataRequired(form.begin_date)
    /\ DataRequired(form.end_date)

\* The response of home and the messages it flashes.
home(method, form, rows) ==
    LET search_records == All(rows)
        searched_ticker == form.ticker
        begin_date == form.begin_date
        end_date == form.end_date
    IN  IF validate_on_submit(method, form)
        THEN IF Contains(searched_ticker, DotTW) \/ Contains(searched_ticker, DotTWO)
             THEN IF ~is_valid_date_format(begin_date) \/ ~is_valid_date_format(end_date)
                  THEN [response |-> RedirectHome, flash |-> <<MsgBadDateFormat>>]
                  ELSE IF DateGE(strptime(begin_date).value, strptime(end_date).value)
                  THEN [response |-> RedirectHome, flash |-> <<MsgBeginNotBeforeEnd>>]
                  ELSE [response |-> RedirectPrice(searched_ticker, begin_date, end_date),
                        flash |-> <<>>]
             ELSE [response |-> RedirectHome, flash |-> <<MsgBadTickerFormat>>]
        ELSE [response |-> RenderIndex(IF method = "POST" THEN form ELSE EmptyForm,
                                       search_records),
              flash |-> <<>>]

\* The response returned for request r, with the messages flashed for it.
Returned(r, response, flash) == [req |-> r, resp |-> response, flashed |-> flash]

\* Worker w serves a request to / .
Home(w, method, form) ==
    /\ pc[w] = "idle"
    /\ LET result == home(method, form, records)
       IN  out' = Returned(HomeRequest(method, form), result.response, result.flash)
    /\ UNCHANGED <<records, pc, req>>
    /\ UNCHANGED <<dateVars, cbVars>>

----------------------------------------------------------------------------
(* search_price                                                            *)

\* A search_price that stores the ticker before it looks at the provider's
\* result.
SearchPriceStoresFirst(w, t, empty) ==
    /\ pc[w] = "idle"
    /\ IF empty
       THEN /\ out' = Returned(PriceRequest(t, empty), RedirectHome, <<MsgTickerNotFound>>)
            /\ UNCHANGED <<pc, req>>
       ELSE /\ req' = [req EXCEPT ![w] = PriceRequest(t, empty)]
            /\ pc' = [pc EXCEPT ![w] = "sp_query"]
            /\ out' = out
    /\ IF UniqueViolation(records, t) \/ FreshIds(records) = {}
       THEN records' = records
       ELSE \E i \in FreshIds(records) : records' = records \cup {[id |-> i, ticker |-> t]}
    /\ UNCHANGED <<dateVars, cbVars>>

\* Worker w takes GET /price/<t>; yf.download returns an empty table or not.
\* On an empty table the handler flashes and redirects home.
SearchPrice(w, t, empty) ==
    /\ pc[w] = "idle"
    /\ IF empty
       THEN /\ out' = Returned(PriceRequest(t, empty), RedirectHome, <<MsgTickerNotFound>>)
            /\ UNCHANGED <<pc, req>>
       ELSE /\ req' = [req EXCEPT ![w] = PriceRequest(t, empty)]
            /\ pc' = [pc EXCEPT ![w] = "sp_query"]
            /\ out' = out
    /\ UNCHANGED records
    /\ UNCHANGED <<dateVars, cbVars>>

\* A search_price that adds the ticker whatever the query found.
SearchPriceQueryIgnored(w) ==
    /\ pc[w] = "sp_query"
    /\ pc' = [pc EXCEPT ![w] = "sp_add"]
    /\ UNCHANGED <<records, req, out>>
    /\ UNCHANGED <<dateVars, cbVars>>

\* ticker_record = SearchRecord.query.filter_by(ticker=ticker).first();
\* with a record found the chart is rendered.
SearchPriceQuery(w) ==
    /\ pc[w] = "sp_query"
    /\ LET ticker_record == First(records, req[w].ticker)
       IN  IF ticker_record # NoRow
           THEN /\ out' = Returned([req[w] EXCEPT !.row = ticker_record],
                                   RenderPrice(req[w].ticker), <<>>)
                /\ pc' = [pc EXCEPT ![w] = "idle"]
                /\ req' = [req EXCEPT ![w] = NoRequest]
           ELSE /\ out' = out
                /\ pc' = [pc EXCEPT ![w] = "sp_add"]
                /\ req' = req
    /\ UNCHANGED records
    /\ UNCHANGED <<dateVars, cbVars>>

\* db.session.add(SearchRecord(ticker=ticker)); db.session.commit().  The
\* store rejects a second row for the ticker with IntegrityError, which
\* nothing catches; otherwise the row is stored and the chart rendered.
SearchPriceAdd(w) ==
    /\ pc[w] = "sp_add"
    /\ IF UniqueViolation(records, req[w].ticker)
       THEN /\ records' = records
            /\ out' = Returned(req[w], ServerError, <<>>)
       ELSE /\ \E i \in FreshIds(records) :
                    records' = records \cup {[id |-> i, ticker |-> req[w].ticker]}
            /\ out' = Returned(req[w], RenderPrice(req[w].ticker), <<>>)
    /\ pc' = [pc EXCEPT ![w] = "idle"]
    /\ req' = [req EXCEPT ![w] = NoRequest]
    /\ UNCHANGED <<dateVars, cbVars>>

----------------------------------------------------------------------------
(* delete_record                                                           *)

\* Worker w takes GET /delete?ticker=t and queries the record; with none
\* found it redirects home.
DeleteRecord(w, t) ==
    /\ pc[w] = "idle"
    /\ LET deleted_ticker == First(records, t)
       IN  IF deleted_ticker # NoRow
           THEN /\ req' = [req EXCEPT ![w] = [DeleteRequest(t) EXCEPT !.row = deleted_ticker]]
                /\ pc' = [pc EXCEPT ![w] = "del_found"]
                /\ out' = out
           ELSE /\ out' = Returned(DeleteRequest(t), RedirectHome, <<>>)
                /\ UNCHANGED <<pc, req>>
    /\ UNCHANGED records
    /\ UNCHANGED <<dateVars, cbVars>>

\* A delete without its filter: every row goes.
DeleteRecordCommitAll(w) ==
    /\ pc[w] = "del_found"
    /\ records' = {}
    /\ out' = Returned(req[w], RedirectHome, <<>>)
    /\ pc' = [pc EXCEPT ![w] = "idle"]
    /\ req' = [req EXCEPT ![w] = NoRequest]
    /\ UNCHANGED <<dateVars, cbVars>>

\* db.session.delete(deleted_ticker); db.session.commit(); redirect home.
\* The DELETE names the row by its primary key; a row already gone is not
\* an error.
DeleteRecordCommit(w) ==
    /\ pc[w] = "del_found"
    /\ records' = records \ {req[w].row}
    /\ out' = Returned(req[w], RedirectHome, <<>>)
    /\ pc' = [pc EXCEPT ![w] = "idle"]
    /\ req' = [req EXCEPT ![w] = NoRequest]
    /\ UNCHANGED <<dateVars, cbVars>>

----------------------------------------------------------------------------
(* callback and handle_message                                             *)

ReplyTokens == {"tokenA", "tokenB"}
Texts == {"hi", "2330.TW"}

TextEvents ==
    {[type |-> "message", message |-> "text", reply_token |-> k, text |-> x] :
        k \in ReplyTokens, x \in Texts}
OtherEvents ==
    {[type |-> "message", message |-> "image", reply_token |-> "tokenA", text |-> ""],
     [type |-> "follow", message |-> "", reply_token |-> "tokenB", text |-> ""]}
Events == TextEvents \cup OtherEvents

\* The event lists of the webhook bodies.
Bodies == UNION {[1..n -> Events] : n \in 0..MaxEvents}
\* The X-Line-Signature header: absent, or the body's signature or not.
Signatures == {"missing", "valid", "invalid"}

NoCallback == [signature |-> "missing", events |-> <<>>]
CbNoResponse == [status |-> 0, body |-> ""]
CbOK == [status |-> 200, body |-> "OK"]
CbBadRequest == [status |-> 400, body |-> ""]

\* ReplyMessageRequest(reply_token=event.reply_token,
\*                     messages=[TextMessage(text=event.message.text)])
ReplyMessageRequest(event) ==
    [reply_token |-> event.reply_token, messages |-> <<event.text>>]

\* The handler registered for an event: handle_message for a MessageEvent
\* with TextMessageContent, none otherwise.
HasHandler(event) == event.type = "message" /\ event.message = "text"

\* A callback that dispatches the events without verifying the signature.
CallbackUnverified(signature, events) ==
    /\ cb_pc = "idle"
    /\ cb_req' = [signature |-> signature, events |-> events]
    /\ cb_sent' = <<>>
    /\ cb_next' = 1
    /\ cb_resp' = CbNoResponse
    /\ cb_pc' = "handle"
    /\ UNCHANGED <<webVars, dateVars>>

\* POST /callback arrives.  A request without the signature header, or one
\* whose signature handler.handle rejects, is answered 400; otherwise the
\* events of the body are dispatched.
Callback(signature, events) ==
    /\ cb_pc = "idle"
    /\ cb_req' = [signature |-> signature, events |-> events]
    /\ cb_sent' = <<>>
    /\ cb_next' = 1
    /\ IF signature # "valid"
       THEN /\ cb_resp' = CbBadRequest
            /\ cb_pc' = "idle"
       ELSE /\ cb_resp' = CbNoResponse
            /\ cb_pc' = "handle"
    /\ UNCHANGED <<webVars, dateVars>>

\* handle_message(event): the reply carries the event's token and text.
HandleMessage ==
    /\ cb_pc = "handle"
    /\ cb_next <= Len(cb_req.events)
    /\ HasHandler(cb_req.events[cb_next])
    /\ cb_sent' = Append(cb_sent, ReplyMessageRequest(cb_req.events[cb_next]))
    /\ cb_next' = cb_next + 1
    /\ UNCHANGED <<cb_pc, cb_req, cb_resp>>
    /\ UNCHANGED <<webVars, dateVars>>

\* An event no handler is registered for is passed over.
NoHandler ==
    /\ cb_pc = "handle"
    /\ cb_next <= Len(cb_req.events)
    /\ ~HasHandler(cb_req.events[cb_next])
    /\ cb_next' = cb_next + 1
    /\ UNCHANGED <<cb_pc, cb_req, cb_resp, cb_sent>>
    /\ UNCHANGED <<webVars, dateVars>>

\* return 'OK'
CallbackReturn ==
    /\ cb_pc = "handle"
    /\ cb_next > Len(cb_req.events)
    /\ cb_resp' = CbOK
    /\ cb_pc' = "idle"
    /\ UNCHANGED <<cb_req, cb_next, cb_sent>>
    /\ UNCHANGED <<webVars, dateVars>>

----------------------------------------------------------------------------
(* is_valid_date_format applied to date_string.                            *)

IsValidDateFormat ==
    /\ date_result = <<>>
    /\ date_result' = <<is_valid_date_format(date_string)>>
    /\ UNCHANGED date_string
    /\ UNCHANGED <<webVars, cbVars>>

----------------------------------------------------------------------------
(* Specifications.                                                         *)

WebInit ==
    /\ records = {}
    /\ pc = [w \in Workers |-> "idle"]
    /\ req = [w \in Workers |-> NoRequest]
    /\ out = Returned(NoRequest, NoResponse, <<>>)

DateInit ==
    /\ date_string = <<>>
    /\ date_result = <<>>

CbInit ==
    /\ cb_pc = "idle"
    /\ cb_req = NoCallback
    /\ cb_next = 1
    /\ cb_sent = <<>>
    /\ cb_resp = CbNoResponse

\* The application after db.create_all() on an empty database.
Init == WebInit /\ DateInit /\ CbInit

\* One step of worker w on the browser routes.
WebStep(w) ==
    \/ Home(w, "GET", EmptyForm)
    \/ \E form \in FewForms : Home(w, "POST", form)
    \/ \E t \in StoreTickers, empty \in BOOLEAN : SearchPrice(w, t, empty)
    \/ SearchPriceQuery(w)
    \/ SearchPriceAdd(w)
    \/ \E t \in StoreTickers : DeleteRecord(w, t)
    \/ DeleteRecordCommit(w)

\* Requests are served by concurrent workers, whose steps interleave.
Next == \E w \in Workers : WebStep(w)

Spec == Init /\ [][Next]_vars

\* Requests are served one at a time: a worker moves only while every other
\* worker is idle.
SeqNext ==
    \E w \in Workers :
        /\ \A v \in Workers \ {w} : pc[v] = "idle"
        /\ WebStep(w)

SeqSpec == Init /\ [][SeqNext]_vars

\* The search form posted with every ticker and date of the form inputs, on
\* a store with or without a record.
HomeInit ==
    /\ records \in {{}, {[id |-> 1, ticker |-> T2330TW]}}
    /\ pc = [w \in Workers |-> "idle"]
    /\ req = [w \in Workers |-> NoRequest]
    /\ out = Returned(NoRequest, NoResponse, <<>>)
    /\ DateInit
    /\ CbInit

HomeNext ==
    \E w \in {CHOOSE v \in Workers : TRUE} :
        \/ Home(w, "GET", EmptyForm)
        \/ \E form \in AllForms : Home(w, "POST", form)

HomeSpec == HomeInit /\ [][HomeNext]_vars

\* is_valid_date_format on every date string.
DateSpecInit ==
    /\ WebInit
    /\ CbInit
    /\ date_string \in DateStrings
    /\ date_result = <<>>

DateNext == IsValidDateFormat

DateSpec == DateSpecInit /\ [][DateNext]_vars

\* The webhook with every signature header and body.
CallbackNext ==
    \/ \E signature \in Signatures, events \in Bodies : Callback(signature, events)
    \/ HandleMessage
    \/ NoHandler
    \/ CallbackReturn

CallbackSpec == Init /\ [][CallbackNext]_vars

----------------------------------------------------------------------------
(* Properties.                                                             *)

RowsOf(rows, t) == {r \in rows : r.ticker = t}

\* C1: in every reachable state of the store, under any interleaving of
\* home, price-display and delete requests, no two SearchRecord rows have
\* the same ticker.
C1_UniqueTicker ==
    \A r1 \in records, r2 \in records : r1.ticker = r2.ticker => r1 = r2

\* Two price-display requests for the same new ticker both queried before
\* either committed: the second commit was rejected, and one row is stored.
C1_Witness ==
    \E t \in StoreTickers :
        /\ out.req.route = "search_price"
        /\ out.req.ticker = t
        /\ out.resp = ServerError
        /\ Cardinality(RowsOf(records, t)) = 1

\* C2: a price-display request for which the provider returned data never
\* ends in a server error: an insert the uniqueness constraint rejects is a
\* benign no-op and the chart is rendered.
C2_RejectedInsertIsBenign ==
    (out.req.route = "search_price" /\ ~out.req.stock_price_empty)
        => out.resp = RenderPrice(out.req.ticker)

\* C3: a price-display request for which the provider returns an empty
\* result flashes the not-found message, redirects home and leaves the
\* stored records exactly as they were.
C3_NotFoundLeavesStore ==
    [][(/\ out' # out
        /\ out'.req.route = "search_price"
        /\ out'.req.stock_price_empty)
       => /\ records' = records
          /\ out'.resp = RedirectHome
          /\ out'.flashed = <<MsgTickerNotFound>>
          /\ pc' = pc]_vars

\* A not-found price-display request answered on a store that holds a
\* record, but none of its ticker.
C3_Witness ==
    /\ out.req.route = "search_price"
    /\ out.req.stock_price_empty
    /\ out.resp = RedirectHome
    /\ records # {}
    /\ RowsOf(records, out.req.ticker) = {}

\* Date a is strictly earlier than date b, both <<year, month, day>>.
DateBefore(a, b) ==
    \/ a[1] < b[1]
    \/ a[1] = b[1] /\ a[2] < b[2]
    \/ a[1] = b[1] /\ a[2] = b[2] /\ a[3] < b[3]

\* C4: a posted form whose ticker contains .TW, whose dates both pass
\* is_valid_date_format and whose begin date is strictly earlier than its
\* end date is answered by a redirect to the price-display route with the
\* submitted ticker and dates, with no flash; equal dates are not.
C4_ValidFormRedirects ==
    (out.req.route = "home" /\ out.req.method = "POST") =>
        LET f == out.req.form
            bothValid == is_valid_date_format(f.begin_date)
                            /\ is_valid_date_format(f.end_date)
            b == strptime(f.begin_date).value
            e == strptime(f.end_date).value
        IN  /\ (Contains(f.ticker, DotTW) /\ bothValid /\ DateBefore(b, e))
                  => /\ out.resp = RedirectPrice(f.ticker, f.begin_date, f.end_date)
                     /\ out.flashed = <<>>
            /\ (bothValid /\ b = e) => out.resp.location # "search_price"

\* Scenario A: 2330.TW from 2023-01-01 to 2023-03-01 was posted and
\* redirected to the price-display route.
C4_Witness ==
    /\ out.req.route = "home"
    /\ out.req.method = "POST"
    /\ out.req.form = Form(T2330TW, D20230101, D20230301)
    /\ out.resp = RedirectPrice(T2330TW, D20230101, D20230301)

\* s is exactly YYYY-MM-DD, zero-padded, and names a real calendar date.
ExactRealDate(s) ==
    /\ Len(s) = 10
    /\ s[5] = "-" /\ s[8] = "-"
    /\ \A i \in {1, 2, 3, 4, 6, 7, 9, 10} : s[i] \in Digits
    /\ LET y == 1000 * DigitVal(s[1]) + 100 * DigitVal(s[2])
                    + 10 * DigitVal(s[3]) + DigitVal(s[4])
           m == 10 * DigitVal(s[6]) + DigitVal(s[7])
           d == 10 * DigitVal(s[9]) + DigitVal(s[10])
       IN  /\ y >= 1
           /\ m \in 1..12
           /\ d \in 1..DaysInMonth(y, m)

\* The year, month and day of an exact YYYY-MM-DD string.
ExactDate(s) ==
    <<1000 * DigitVal(s[1]) + 100 * DigitVal(s[2]) + 10 * DigitVal(s[3]) + DigitVal(s[4]),
      10 * DigitVal(s[6]) + DigitVal(s[7]),
      10 * DigitVal(s[9]) + DigitVal(s[10])>>

\* The message of the first check a posted form fails, in the order ticker
\* suffix, date format, date ordering; "" when it fails none.
FirstFailure(f) ==
    IF ~Contains(f.ticker, DotTW) THEN MsgBadTickerFormat
    ELSE IF ~ExactRealDate(f.begin_date) \/ ~ExactRealDate(f.end_date)
    THEN MsgBadDateFormat
    ELSE IF ~DateBefore(ExactDate(f.begin_date), ExactDate(f.end_date))
    THEN MsgBeginNotBeforeEnd
    ELSE ""

\* C5: every POST whose input is a user input error (a ticker without the
\* .TW substring, the empty and blank tickers included, a date that is not
\* a valid YYYY-MM-DD string, or begin >= end) flashes exactly the message
\* of the first failing check, redirects to / and creates no record.
C5_InputErrorFlashesAndRedirects ==
    (/\ out.req.route = "home"
     /\ out.req.method = "POST"
     /\ FirstFailure(out.req.form) # "")
        => /\ out.flashed = <<FirstFailure(out.req.form)>>
           /\ out.resp = RedirectHome

\* C6: a delete request for ticker t removes the record of t if there is
\* one, is a no-op without error if there is none, leaves every record of
\* another ticker unchanged and redirects home; afterwards no record of t
\* is listed.
C6_DeleteRemovesOnlyTicker ==
    [][(/\ out' # out
        /\ out'.req.route = "delete_record")
       => /\ out'.resp = RedirectHome
          /\ out'.flashed = <<>>
          /\ records' = records \ RowsOf(records, out'.req.ticker)
          /\ RowsOf(All(records'), out'.req.ticker) = {}
          /\ (out'.req.row = NoRow) = (RowsOf(records, out'.req.ticker) = {})]_vars

\* A delete request that found its record has removed it, and the record
\* of the other ticker is still stored.
C6_Witness ==
    /\ out.req.route = "delete_record"
    /\ out.req.row # NoRow
    /\ out.resp = RedirectHome
    /\ out.req.row \notin records
    /\ \E r \in records : r.ticker # out.req.ticker

\* C7: in a sequential run every price-display request with provider data
\* renders the chart and leaves exactly one record of its ticker; one that
\* finds the ticker stored changes nothing, and a stored row leaves the
\* store, or changes, only by a delete of it: the id of a ticker is the
\* one its first insertion assigned.
C7_InsertIfAbsentIdempotent ==
    [][/\ (/\ out' # out
           /\ out'.req.route = "search_price"
           /\ ~out'.req.stock_price_empty)
          => /\ out'.resp = RenderPrice(out'.req.ticker)
             /\ Cardinality(RowsOf(records', out'.req.ticker)) = 1
             /\ records \subseteq records'
             /\ RowsOf(records, out'.req.ticker) # {} => records' = records
       /\ \A r \in records \ records' :
             /\ out'.req.route = "delete_record"
             /\ out'.req.row = r]_vars

\* A price-display request succeeded and found the row an earlier success
\* stored, which is the one row of its ticker.
C7_Witness ==
    /\ out.req.route = "search_price"
    /\ out.resp = RenderPrice(out.req.ticker)
    /\ out.req.row # NoRow
    /\ RowsOf(records, out.req.ticker) = {out.req.row}

\* C8: is_valid_date_format(s) is true iff s is exactly YYYY-MM-DD with a
\* real calendar date; the non-padded 2023-1-1 gives false.
C8_ValidIffExactRealDate ==
    date_result # <<>> => (date_result[1] <=> ExactRealDate(date_string))

\* The replies an echo of the text-message events among evs sends.
RECURSIVE Echoes(_)
Echoes(evs) ==
    IF evs = <<>> THEN <<>>
    ELSE LET e == evs[Len(evs)]
             before == Echoes(SubSeq(evs, 1, Len(evs) - 1))
         IN  IF e.type = "message" /\ e.message = "text"
             THEN Append(before, [reply_token |-> e.reply_token, messages |-> <<e.text>>])
             ELSE before

C10_StoredTickersHaveSuffix ==
    \A r \in records : Contains(r.ticker, DotTW)

=============================================================================
